---- MODULE Spec2Model ----
(***************************************************************************)
(* Model of the vault resolution engine (vault.go) over a key/value Store. *)
(* Callers run Get/Set/Delete/List/Refresh concurrently; every Store or    *)
(* Source call and every read of the clock is one atomic step.             *)
(***************************************************************************)
EXTENDS Integers, Sequences, FiniteSets, TLC

\* ------------------------------------------------------------------ bounds
MaxClock == 3          \* the clock runs 1..MaxClock
MaxTTL == 1            \* configured TTL ranges over 0..MaxTTL
MaxCalls == 3          \* calls issued by a single caller
MaxConcurrentCalls == 2 \* calls issued by concurrent callers, all together
MaxCount == 2          \* history counters saturate here
MaxValue == 2          \* values handed to the stores are 1..MaxValue
MaxKeychainCalls == 5  \* calls issued on the keychain store
MaxReliableCalls == 3  \* calls issued by concurrent callers when nothing fails
MaxKeychainConcCalls == 3  \* Set and Delete calls of concurrent keychain callers

Procs == {"p1", "p2"}  \* concurrent callers of one vault
Keys == {"k", "x"}

ZeroTime == 0          \* Go's zero time.Time (IsZero)

\* Entry{} : the zero value returned next to an error
EmptyEntry == [key |-> "", value |-> "", createdAt |-> ZeroTime, source |-> ""]

Entry(k, v, t, s) == [key |-> k, value |-> v, createdAt |-> t, source |-> s]

\* Two providers, both supplying k: SrcA once, SrcB twice (with a provider-side
\* timestamp on the second entry).  No provider supplies x.
SrcA == << Entry("k", "a", ZeroTime, "A") >>
SrcB == << Entry("k", "b1", ZeroTime, "B"), Entry("k", "b2", 1, "B") >>

\* WithSource appends in call order
WithSource(cfg, s) == Append(cfg, s)

SourceConfigs == { << >>, WithSource(<< >>, SrcA), WithSource(WithSource(<< >>, SrcA), SrcB) }

\* entries a caller hands to Set
SetInputs == { Entry(k, "m", ZeroTime, "") : k \in Keys }
             \cup { Entry(k, "m", 1, "custom") : k \in Keys }

VARIABLES
  clock,         \* time.Now()
  ttl,           \* vault.ttl
  sources,       \* vault.sources
  store,         \* Memory.state.entries of the vault's store
  lastRefresh,   \* vault.lastRefresh
  active,        \* callers that issue operations
  pc,            \* position of each caller
  op,            \* operation each caller is in
  key,           \* Get's key argument
  e,             \* Get's local e
  err,           \* Get's local err
  now,           \* Refresh's local now
  i,             \* Refresh: index of the source being handled
  j,             \* Refresh: index of the entry being written
  res,           \* what the caller's last call returned
  fetched,       \* history: sources fetched by the caller's current call
  wrote,         \* history: entries written to the store by the current call
  autoStarts,    \* history: automatic refreshes started (saturating)
  lastAutoStart, \* history: start time of the latest automatic refresh
  calls,         \* history: calls issued so far
  limit,         \* calls the callers issue at most
  entries,       \* memoryState.entries of a Memory shared by several handles
  namespaced,    \* whether the configured store implements Namespaced
  name,          \* config.namespace of the vault built for each view
  prefix,        \* Memory.prefix of the store handle of each view
  mres,          \* what the last call through a view returned
  writer,        \* history: the view that wrote each stored entry
  ring,          \* the items of the keyring service of the keychain store
  mu,            \* Store.mu of each keychain store handle: its holder
  using,         \* the keychain store handle each caller calls
  frame,         \* position and locals of each caller's keychain call
  kres           \* what the caller's last keychain call returned

VaultVars == << clock, ttl, sources, store, lastRefresh, active, pc, op, key, e, err,
                now, i, j, res, fetched, wrote, autoStarts, lastAutoStart, calls, limit >>

ViewVars == << entries, namespaced, name, prefix, mres, writer >>

KeychainVars == << ring, mu, using, frame, kres >>

vars == << VaultVars, ViewVars, KeychainVars >>

\* what the calls of one vault leave alone
Outside == << ViewVars, KeychainVars >>

Min(a, b) == IF a < b THEN a ELSE b

\* ------------------------------------------------------------- time helpers
IsZero(t) == t = ZeroTime

\* time.Since(t); the zero time is further back than any TTL
Since(t) == IF IsZero(t) THEN clock + MaxTTL + 1 ELSE clock - t

\* ------------------------------------------------------------ Memory store
MemoryGet(k) == IF k \in DOMAIN store THEN << store[k], "nil" >>
                ELSE << EmptyEntry, "ErrNotFound" >>

MemorySet(en) == [x \in (DOMAIN store) \cup {en.key} |-> IF x = en.key THEN en ELSE store[x]]

MemoryDelete(k) == [x \in (DOMAIN store) \ {k} |-> store[x]]

\* mutant: List leaves out the entries that have expired
MemoryList_fresh == { store[x] : x \in { y \in DOMAIN store : ttl <= 0 \/ clock - store[y].createdAt <= ttl } }

MemoryList == { store[x] : x \in DOMAIN store }

\* ------------------------------------------------------------ vault policy
\* mutant: the boundary age = TTL counts as expired
expired_ge(en) == IF ttl <= 0 THEN FALSE ELSE Since(en.createdAt) >= ttl

\* mutant: TTL = 0 is compared like any other TTL
expired_noZero(en) == Since(en.createdAt) > ttl

expired(en) == IF ttl <= 0 THEN FALSE ELSE Since(en.createdAt) > ttl

\* mutant: the TTL = 0 case is compared like any other TTL
shouldAutoRefresh_noZero ==
  IF Len(sources) = 0 THEN FALSE
  ELSE IF IsZero(lastRefresh) THEN TRUE
  ELSE Since(lastRefresh) > ttl

\* mutant: nothing is refreshed automatically after the first success
shouldAutoRefresh_once ==
  IF Len(sources) = 0 THEN FALSE
  ELSE IsZero(lastRefresh)

\* mutant: the gate also permits when exactly one TTL has passed
shouldAutoRefresh_ge ==
  IF Len(sources) = 0 THEN FALSE
  ELSE IF IsZero(lastRefresh) THEN TRUE
  ELSE IF ttl > 0 THEN Since(lastRefresh) >= ttl
  ELSE FALSE

shouldAutoRefresh ==
  IF Len(sources) = 0 THEN FALSE
  ELSE IF IsZero(lastRefresh) THEN TRUE
  ELSE IF ttl > 0 THEN Since(lastRefresh) > ttl
  ELSE FALSE

\* ----------------------------------------------------------------- results
NoResult == [op |-> "none", key |-> "", out |-> "none", entry |-> EmptyEntry,
             list |-> {}, ret |-> "none", rerr |-> "none"]

Result(o, k, out, en, ret, rerr) ==
  [op |-> o, key |-> k, out |-> out, entry |-> en, list |-> {}, ret |-> ret, rerr |-> rerr]

\* the caller returns: locals are dropped, the result is kept
Return(p, r) ==
  /\ pc' = [pc EXCEPT ![p] = "idle"]
  /\ res' = [res EXCEPT ![p] = r]
  /\ e' = [e EXCEPT ![p] = EmptyEntry]
  /\ err' = [err EXCEPT ![p] = "nil"]
  /\ now' = [now EXCEPT ![p] = ZeroTime]
  /\ i' = [i EXCEPT ![p] = 0]
  /\ j' = [j EXCEPT ![p] = 0]

\* a call begins: the histories of the previous call are dropped
Begin(p, o, k) ==
  /\ calls < limit
  /\ calls' = calls + 1
  /\ op' = [op EXCEPT ![p] = o]
  /\ key' = [key EXCEPT ![p] = k]
  /\ fetched' = [fetched EXCEPT ![p] = << >>]
  /\ wrote' = [wrote EXCEPT ![p] = << >>]

Hist == << autoStarts, lastAutoStart >>
Called == << op, key, fetched, wrote, calls >>
Config == << ttl, sources, active, limit >>

\* ---------------------------------------------------------------- vault.Get
\* line 139: e, err := v.store.Get(ctx, key)
GetRead(p) ==
  /\ pc[p] = "idle"
  /\ \E k \in Keys, ok \in BOOLEAN :
       /\ Begin(p, "Get", k)
       /\ e' = [e EXCEPT ![p] = IF ok THEN MemoryGet(k)[1] ELSE EmptyEntry]
       /\ err' = [err EXCEPT ![p] = IF ok THEN MemoryGet(k)[2] ELSE "ErrStore"]
  /\ pc' = [pc EXCEPT ![p] = "get_check"]
  /\ res' = [res EXCEPT ![p] = NoResult]
  /\ UNCHANGED Outside
  /\ UNCHANGED << clock, store, lastRefresh, now, i, j, Config, Hist >>

\* mutant: any error of the first read is handled like NotFound
GetCheck_anyError(p) ==
  /\ pc[p] = "get_check"
  /\ IF err[p] = "nil" /\ ~expired(e[p])
       THEN /\ Return(p, Result("Get", key[p], "nil", e[p], "hit", "none"))
       ELSE /\ pc' = [pc EXCEPT ![p] = "get_gate"]
            /\ UNCHANGED << res, e, err, now, i, j >>
  /\ UNCHANGED Outside
  /\ UNCHANGED << clock, store, lastRefresh, Called, Config, Hist >>

\* lines 140-147
GetCheck(p) ==
  /\ pc[p] = "get_check"
  /\ IF err[p] = "nil" /\ ~expired(e[p])
       THEN /\ Return(p, Result("Get", key[p], "nil", e[p], "hit", "none"))
       ELSE IF ~(err[p] = "ErrNotFound" \/ (err[p] = "nil" /\ expired(e[p])))
         THEN /\ Return(p, Result("Get", key[p], err[p], EmptyEntry, "storeErr", "none"))
         ELSE /\ pc' = [pc EXCEPT ![p] = "get_gate"]
              /\ UNCHANGED << res, e, err, now, i, j >>
  /\ UNCHANGED Outside
  /\ UNCHANGED << clock, store, lastRefresh, Called, Config, Hist >>

\* mutant: a denied gate serves the entry read at line 139
GetGate_serveStale(p) ==
  /\ pc[p] = "get_gate"
  /\ IF ~shouldAutoRefresh
       THEN /\ Return(p, IF err[p] = "nil"
                           THEN Result("Get", key[p], "nil", e[p], "denied", "none")
                           ELSE Result("Get", key[p], "ErrNotFound", EmptyEntry, "denied", "none"))
            /\ UNCHANGED Hist
       ELSE /\ pc' = [pc EXCEPT ![p] = "refresh"]
            /\ autoStarts' = Min(autoStarts + 1, MaxCount)
            /\ lastAutoStart' = clock
            /\ UNCHANGED << res, e, err, now, i, j >>
  /\ UNCHANGED Outside
  /\ UNCHANGED << clock, store, lastRefresh, Called, Config >>

\* lines 149-153: the throttle gate, then the call of Refresh
GetGate(p) ==
  /\ pc[p] = "get_gate"
  /\ IF ~shouldAutoRefresh
       THEN /\ Return(p, Result("Get", key[p], "ErrNotFound", EmptyEntry, "denied", "none"))
            /\ UNCHANGED Hist
       ELSE /\ pc' = [pc EXCEPT ![p] = "refresh"]
            /\ autoStarts' = Min(autoStarts + 1, MaxCount)
            /\ lastAutoStart' = clock
            /\ UNCHANGED << res, e, err, now, i, j >>
  /\ UNCHANGED Outside
  /\ UNCHANGED << clock, store, lastRefresh, Called, Config >>

\* line 157: return v.store.Get(ctx, key)
GetReread(p) ==
  /\ pc[p] = "get_reread"
  /\ \E ok \in BOOLEAN :
       Return(p, IF ok
                   THEN Result("Get", key[p], MemoryGet(key[p])[2], MemoryGet(key[p])[1],
                               "reread", "nil")
                   ELSE Result("Get", key[p], "ErrStore", EmptyEntry, "reread", "nil"))
  /\ UNCHANGED Outside
  /\ UNCHANGED << clock, store, lastRefresh, Called, Config, Hist >>

\* ------------------------------------------------------------ vault.Refresh
\* mutant: Get falls back to what the store holds when Refresh fails
RefreshFailed_fallback(p, rerr) ==
  Return(p, IF op[p] = "Get" /\ key[p] \in DOMAIN store
              THEN Result("Get", key[p], "nil", store[key[p]], "refreshErr", rerr)
              ELSE Result(op[p], key[p], rerr, EmptyEntry, "refreshErr", rerr))

\* what the caller of a failed Refresh returns (Get: lines 153-155)
RefreshFailed(p, rerr) ==
  Return(p, Result(op[p], key[p], rerr, EmptyEntry, "refreshErr", rerr))

\* after the last entry of source i[p]: the next source, or the end of the loop
NextSource(p) ==
  /\ i' = [i EXCEPT ![p] = i[p] + 1]
  /\ j' = [j EXCEPT ![p] = 0]
  /\ pc' = [pc EXCEPT ![p] = IF i[p] + 1 > Len(sources) THEN "commit" ELSE "fetch"]

\* mutant: an explicit Refresh asks the throttle gate first
RefreshCall_gated(p) ==
  /\ pc[p] = "idle"
  /\ Begin(p, "Refresh", "")
  /\ IF shouldAutoRefresh
       THEN /\ now' = [now EXCEPT ![p] = clock]
            /\ i' = [i EXCEPT ![p] = 1]
            /\ pc' = [pc EXCEPT ![p] = "fetch"]
            /\ res' = [res EXCEPT ![p] = NoResult]
            /\ UNCHANGED << e, err, j >>
       ELSE Return(p, Result("Refresh", "", "nil", EmptyEntry, "refreshOk", "nil"))
  /\ UNCHANGED Outside
  /\ UNCHANGED << clock, store, lastRefresh, Config, Hist >>

\* line 185: now := time.Now()   (an explicit call of Refresh)
RefreshCall(p) ==
  /\ pc[p] = "idle"
  /\ Begin(p, "Refresh", "")
  /\ now' = [now EXCEPT ![p] = clock]
  /\ i' = [i EXCEPT ![p] = 1]
  /\ pc' = [pc EXCEPT ![p] = IF Len(sources) = 0 THEN "commit" ELSE "fetch"]
  /\ res' = [res EXCEPT ![p] = NoResult]
  /\ UNCHANGED Outside
  /\ UNCHANGED << clock, store, lastRefresh, e, err, j, Config, Hist >>

\* line 185: now := time.Now()   (Refresh called by Get, line 153)
RefreshNow(p) ==
  /\ pc[p] = "refresh"
  /\ now' = [now EXCEPT ![p] = clock]
  /\ i' = [i EXCEPT ![p] = 1]
  /\ pc' = [pc EXCEPT ![p] = IF Len(sources) = 0 THEN "commit" ELSE "fetch"]
  /\ UNCHANGED Outside
  /\ UNCHANGED << clock, store, lastRefresh, e, err, j, res, Called, Config, Hist >>

\* mutant: a failed fetch is skipped and the next source is consulted
RefreshFetch_continue(p) ==
  /\ pc[p] = "fetch"
  /\ \E ok \in BOOLEAN :
       /\ IF ~ok
            THEN /\ NextSource(p)
                 /\ UNCHANGED fetched
            ELSE /\ fetched' = [fetched EXCEPT ![p] = Append(fetched[p], i[p])]
                 /\ IF Len(sources[i[p]]) = 0
                      THEN NextSource(p)
                      ELSE /\ j' = [j EXCEPT ![p] = 1]
                           /\ pc' = [pc EXCEPT ![p] = "set"]
                           /\ UNCHANGED i
       /\ UNCHANGED << res, e, err, now >>
  /\ UNCHANGED Outside
  /\ UNCHANGED << clock, store, lastRefresh, op, key, wrote, calls, Config, Hist >>

\* mutant: lastRefresh is stamped although the fetch failed
RefreshFetch_stamp(p) ==
  /\ pc[p] = "fetch"
  /\ \E ok \in BOOLEAN :
       IF ~ok
         THEN /\ RefreshFailed(p, "ErrFetch")
              /\ lastRefresh' = now[p]
              /\ UNCHANGED fetched
         ELSE /\ fetched' = [fetched EXCEPT ![p] = Append(fetched[p], i[p])]
              /\ IF Len(sources[i[p]]) = 0
                   THEN NextSource(p)
                   ELSE /\ j' = [j EXCEPT ![p] = 1]
                        /\ pc' = [pc EXCEPT ![p] = "set"]
                        /\ UNCHANGED i
              /\ UNCHANGED << res, e, err, now, lastRefresh >>
  /\ UNCHANGED Outside
  /\ UNCHANGED << clock, store, op, key, wrote, calls, Config, Hist >>

\* lines 188-191: entries, err := src.Fetch(ctx)
RefreshFetch(p) ==
  /\ pc[p] = "fetch"
  /\ \E ok \in BOOLEAN :
       IF ~ok
         THEN /\ RefreshFailed(p, "ErrFetch")
              /\ UNCHANGED fetched
         ELSE /\ fetched' = [fetched EXCEPT ![p] = Append(fetched[p], i[p])]
              /\ IF Len(sources[i[p]]) = 0
                   THEN NextSource(p)
                   ELSE /\ j' = [j EXCEPT ![p] = 1]
                        /\ pc' = [pc EXCEPT ![p] = "set"]
                        /\ UNCHANGED i
              /\ UNCHANGED << res, e, err, now >>
  /\ UNCHANGED Outside
  /\ UNCHANGED << clock, store, lastRefresh, op, key, wrote, calls, Config, Hist >>

\* mutant: a key this Refresh has already written is not written again
RefreshSet_keepFirst(p) ==
  /\ pc[p] = "set"
  /\ LET en == [sources[i[p]][j[p]] EXCEPT !.createdAt = now[p]] IN
     \E ok \in BOOLEAN :
       IF ~ok
         THEN /\ RefreshFailed(p, "ErrSet")
              /\ UNCHANGED << store, wrote >>
         ELSE /\ IF \E n \in 1..Len(wrote[p]) : wrote[p][n].key = en.key
                   THEN UNCHANGED << store, wrote >>
                   ELSE /\ store' = MemorySet(en)
                        /\ wrote' = [wrote EXCEPT ![p] = Append(wrote[p], en)]
              /\ IF j[p] + 1 > Len(sources[i[p]])
                   THEN NextSource(p)
                   ELSE /\ j' = [j EXCEPT ![p] = j[p] + 1]
                        /\ UNCHANGED << pc, i >>
              /\ UNCHANGED << res, e, err, now >>
  /\ UNCHANGED Outside
  /\ UNCHANGED << clock, lastRefresh, op, key, fetched, calls, Config, Hist >>

\* lines 193-198: e.CreatedAt = now; v.store.Set(ctx, e)
RefreshSet(p) ==
  /\ pc[p] = "set"
  /\ LET en == [sources[i[p]][j[p]] EXCEPT !.createdAt = now[p]] IN
     \E ok \in BOOLEAN :
       IF ~ok
         THEN /\ RefreshFailed(p, "ErrSet")
              /\ UNCHANGED << store, wrote >>
         ELSE /\ store' = MemorySet(en)
              /\ wrote' = [wrote EXCEPT ![p] = Append(wrote[p], en)]
              /\ IF j[p] + 1 > Len(sources[i[p]])
                   THEN NextSource(p)
                   ELSE /\ j' = [j EXCEPT ![p] = j[p] + 1]
                        /\ UNCHANGED << pc, i >>
              /\ UNCHANGED << res, e, err, now >>
  /\ UNCHANGED Outside
  /\ UNCHANGED << clock, lastRefresh, op, key, fetched, calls, Config, Hist >>

\* mutant: lastRefresh is set to the time Refresh completes
RefreshCommit_completion(p) ==
  /\ pc[p] = "commit"
  /\ lastRefresh' = clock
  /\ IF op[p] = "Get"
       THEN /\ pc' = [pc EXCEPT ![p] = "get_reread"]
            /\ UNCHANGED << res, e, err, now, i, j >>
       ELSE Return(p, Result("Refresh", "", "nil", EmptyEntry, "refreshOk", "nil"))
  /\ UNCHANGED Outside
  /\ UNCHANGED << clock, store, Called, Config, Hist >>

\* lines 201-205: v.lastRefresh = now under v.mu; return nil
RefreshCommit(p) ==
  /\ pc[p] = "commit"
  /\ lastRefresh' = now[p]
  /\ IF op[p] = "Get"
       THEN /\ pc' = [pc EXCEPT ![p] = "get_reread"]
            /\ UNCHANGED << res, e, err, now, i, j >>
       ELSE Return(p, Result("Refresh", "", "nil", EmptyEntry, "refreshOk", "nil"))
  /\ UNCHANGED Outside
  /\ UNCHANGED << clock, store, Called, Config, Hist >>

\* ------------------------------------------------ vault.Set / Delete / List
\* mutant: Set stamps the current time on every entry
Set_stampAlways(p) ==
  /\ pc[p] = "idle"
  /\ \E en \in SetInputs, ok \in BOOLEAN :
       LET e1 == [en EXCEPT !.createdAt = clock]
           e2 == IF e1.source = "" THEN [e1 EXCEPT !.source = "manual"] ELSE e1
       IN /\ Begin(p, "Set", en.key)
          /\ IF ok
               THEN /\ store' = MemorySet(e2)
                    /\ Return(p, Result("Set", en.key, "nil", e2, "set", "none"))
               ELSE /\ UNCHANGED store
                    /\ Return(p, Result("Set", en.key, "ErrStore", e2, "set", "none"))
  /\ UNCHANGED Outside
  /\ UNCHANGED << clock, lastRefresh, Config, Hist >>

\* lines 162-170
Set(p) ==
  /\ pc[p] = "idle"
  /\ \E en \in SetInputs, ok \in BOOLEAN :
       LET e1 == IF IsZero(en.createdAt) THEN [en EXCEPT !.createdAt = clock] ELSE en
           e2 == IF e1.source = "" THEN [e1 EXCEPT !.source = "manual"] ELSE e1
       IN /\ Begin(p, "Set", en.key)
          /\ IF ok
               THEN /\ store' = MemorySet(e2)
                    /\ Return(p, Result("Set", en.key, "nil", e2, "set", "none"))
               ELSE /\ UNCHANGED store
                    /\ Return(p, Result("Set", en.key, "ErrStore", e2, "set", "none"))
  /\ UNCHANGED Outside
  /\ UNCHANGED << clock, lastRefresh, Config, Hist >>

\* lines 173-175
Delete(p) ==
  /\ pc[p] = "idle"
  /\ \E k \in Keys, ok \in BOOLEAN :
       /\ Begin(p, "Delete", k)
       /\ IF ok
            THEN /\ store' = MemoryDelete(k)
                 /\ Return(p, Result("Delete", k, "nil", EmptyEntry, "delete", "none"))
            ELSE /\ UNCHANGED store
                 /\ Return(p, Result("Delete", k, "ErrStore", EmptyEntry, "delete", "none"))
  /\ UNCHANGED Outside
  /\ UNCHANGED << clock, lastRefresh, Config, Hist >>

\* lines 178-180
List(p) ==
  /\ pc[p] = "idle"
  /\ Begin(p, "List", "")
  /\ \E ok \in BOOLEAN :
       Return(p, IF ok
                   THEN [Result("List", "", "nil", EmptyEntry, "list", "none")
                           EXCEPT !.list = MemoryList]
                   ELSE Result("List", "", "ErrStore", EmptyEntry, "list", "none"))
  /\ UNCHANGED Outside
  /\ UNCHANGED << clock, store, lastRefresh, Config, Hist >>

\* ---------------------------------------------------------------- the clock
Tick ==
  /\ clock < MaxClock
  /\ clock' = clock + 1
  /\ UNCHANGED Outside
  /\ UNCHANGED << ttl, sources, store, lastRefresh, active, pc, op, key, e, err,
                  now, i, j, res, fetched, wrote, autoStarts, lastAutoStart, calls, limit >>

\* ------------------------------------------- views of one store (memory.go)
Views == {"u", "s", "t"}     \* u is built with no namespace, s and t with one
Names == {"a", "a/b", "b"}
ViewKeys == {"k", "b/k"}
Values == 1..MaxValue

\* Memory.WithNamespace, lines 31-36: the prefix of the scoped handle
WithNamespace(ns) == ns \o "/"

\* mutant: the namespace is applied without asking for the capability
NewStore_force(ns, capable) == IF ns # "" THEN WithNamespace(ns) ELSE ""

\* vault.New, lines 112-117: the prefix of the store handle the vault is given.
\* A store that does not implement Namespaced is used as it is.
NewStore(ns, capable) == IF ns # "" /\ capable THEN WithNamespace(ns) ELSE ""

\* Memory.Get through a handle with prefix pre
ScopedGet(pre, k) == IF pre \o k \in DOMAIN entries THEN << entries[pre \o k], "nil" >>
                     ELSE << EmptyEntry, "ErrNotFound" >>

\* Memory.Set through a handle with prefix pre
ScopedSet(pre, en) ==
  [x \in (DOMAIN entries) \cup {pre \o en.key} |-> IF x = pre \o en.key THEN en ELSE entries[x]]

\* Memory.Delete through a handle with prefix pre
ScopedDelete(pre, k) == [x \in (DOMAIN entries) \ {pre \o k} |-> entries[x]]

\* line 75: the slots Memory.List selects
Listed(pre) ==
  { x \in DOMAIN entries : pre = "" \/ (Len(x) > Len(pre) /\ SubSeq(x, 1, Len(pre)) = pre) }

\* Memory.List through a handle with prefix pre: the slice it returns, each
\* element indexed by the slot it was read from
ScopedList(pre) == [x \in Listed(pre) |-> entries[x]]

NoList == [x \in {} |-> EmptyEntry]

ViewResult(v, o, k, out, en, l) ==
  [view |-> v, op |-> o, key |-> k, out |-> out, entry |-> en, list |-> l]

ViewConfig == << namespaced, name, prefix >>

\* Get through view v
ViewGet(v) ==
  /\ \E k \in ViewKeys :
       mres' = ViewResult(v, "Get", k, ScopedGet(prefix[v], k)[2], ScopedGet(prefix[v], k)[1], NoList)
  /\ UNCHANGED << entries, writer, ViewConfig, VaultVars, KeychainVars >>

\* mutant: Set writes the slot of the bare key
ViewSet_bare(v) ==
  /\ \E k \in ViewKeys, x \in Values :
       LET en == Entry(k, x, 1, "manual") IN
       /\ entries' = ScopedSet("", en)
       /\ writer' = [y \in DOMAIN entries' |-> IF y = k THEN v ELSE writer[y]]
       /\ mres' = ViewResult(v, "Set", k, "nil", en, NoList)
  /\ UNCHANGED << ViewConfig, VaultVars, KeychainVars >>

\* Set through view v
ViewSet(v) ==
  /\ \E k \in ViewKeys, x \in Values :
       LET en == Entry(k, x, 1, "manual") IN
       /\ entries' = ScopedSet(prefix[v], en)
       /\ writer' = [y \in DOMAIN entries' |-> IF y = prefix[v] \o k THEN v ELSE writer[y]]
       /\ mres' = ViewResult(v, "Set", k, "nil", en, NoList)
  /\ UNCHANGED << ViewConfig, VaultVars, KeychainVars >>

\* Delete through view v
ViewDelete(v) ==
  /\ \E k \in ViewKeys :
       /\ entries' = ScopedDelete(prefix[v], k)
       /\ writer' = [y \in DOMAIN entries' |-> writer[y]]
       /\ mres' = ViewResult(v, "Delete", k, "nil", EmptyEntry, NoList)
  /\ UNCHANGED << ViewConfig, VaultVars, KeychainVars >>

\* List through view v
ViewList(v) ==
  /\ mres' = ViewResult(v, "List", "", "nil", EmptyEntry, ScopedList(prefix[v]))
  /\ UNCHANGED << entries, writer, ViewConfig, VaultVars, KeychainVars >>

\* ------------------------------------- keychain store (keychain/keychain.go)
indexKey == "__vault_index__"

KeychainKeys == {"j", "k", indexKey}
Handles == {"h1", "h2"}      \* Store values of one keyring service

\* json.Marshal(entry): a JSON object
Marshal(en) == [kind |-> "object", entry |-> en, keys |-> << >>]

\* json.Marshal(keys): a JSON array of strings
MarshalKeys(ks) == [kind |-> "array", entry |-> EmptyEntry, keys |-> ks]

\* json.Unmarshal(data, &entry): only a JSON object decodes into an Entry
UnmarshalEntry(d) == IF d.kind = "object" THEN << d.entry, "nil" >>
                     ELSE << EmptyEntry, "ErrUnmarshal" >>

\* json.Unmarshal(data, &keys), error dropped: anything else leaves keys nil
UnmarshalKeys(d) == IF d.kind = "array" THEN d.keys ELSE << >>

\* keyring.Set / keyring.Delete on the items r of the service
keyringSet(r, k, d) == [x \in (DOMAIN r) \cup {k} |-> IF x = k THEN d ELSE r[x]]

keyringDelete(r, k) == [x \in (DOMAIN r) \ {k} |-> r[x]]

\* Store.Get, lines 58-73, on the items r
KeychainGet(r, k) == IF k \notin DOMAIN r THEN << EmptyEntry, "ErrNotFound" >>
                     ELSE UnmarshalEntry(r[k])

\* Store.readIndex, lines 146-155, on the items r
readIndex(r) == IF indexKey \notin DOMAIN r THEN << >> ELSE UnmarshalKeys(r[indexKey])

Range(q) == { q[n] : n \in 1..Len(q) }

NoFrame == [pc |-> "idle", op |-> "none", key |-> "", entry |-> EmptyEntry,
            keys |-> << >>, entries |-> << >>]

KeychainResult(o, k, out, en, l) == [op |-> o, key |-> k, out |-> out, entry |-> en, list |-> l]

NoKeychainResult == KeychainResult("none", "", "none", EmptyEntry, << >>)

\* everything of the vault but the count of calls
VaultRest == << clock, ttl, sources, store, lastRefresh, active, pc, op, key, e, err,
                now, i, j, res, fetched, wrote, autoStarts, lastAutoStart, limit >>

KeychainBegin(c) ==
  /\ frame[c].pc = "idle"
  /\ calls < limit
  /\ calls' = calls + 1

KeychainReturn(c, r) ==
  /\ frame' = [frame EXCEPT ![c] = NoFrame]
  /\ kres' = [kres EXCEPT ![c] = r]

\* Store.Get, lines 58-73
StoreGet(c) ==
  /\ KeychainBegin(c)
  /\ \E k \in KeychainKeys, ok \in BOOLEAN :
       KeychainReturn(c, IF ok
                           THEN KeychainResult("Get", k, KeychainGet(ring, k)[2],
                                               KeychainGet(ring, k)[1], << >>)
                           ELSE KeychainResult("Get", k, "ErrKeyring", EmptyEntry, << >>))
  /\ UNCHANGED << ring, mu, using, VaultRest, ViewVars >>

\* Store.Set, lines 76-85: marshal and keyring.Set; addToIndex follows
StoreSet(c) ==
  /\ KeychainBegin(c)
  /\ \E k \in KeychainKeys, x \in Values, ok \in BOOLEAN :
       LET en == Entry(k, x, 1, "manual") IN
       IF ok
         THEN /\ ring' = keyringSet(ring, k, Marshal(en))
              /\ frame' = [frame EXCEPT ![c] = [NoFrame EXCEPT !.pc = "addToIndex", !.op = "Set",
                                                               !.key = k, !.entry = en]]
              /\ kres' = [kres EXCEPT ![c] = NoKeychainResult]
         ELSE /\ UNCHANGED ring
              /\ KeychainReturn(c, KeychainResult("Set", k, "ErrKeyring", en, << >>))
  /\ UNCHANGED << mu, using, VaultRest, ViewVars >>

\* Store.Delete, lines 90-93: keyring.Delete; removeFromIndex follows
StoreDelete(c) ==
  /\ KeychainBegin(c)
  /\ \E k \in KeychainKeys, ok \in BOOLEAN :
       IF ok
         THEN /\ ring' = keyringDelete(ring, k)
              /\ frame' = [frame EXCEPT ![c] = [NoFrame EXCEPT !.pc = "removeFromIndex",
                                                               !.op = "Delete", !.key = k]]
              /\ kres' = [kres EXCEPT ![c] = NoKeychainResult]
         ELSE /\ UNCHANGED ring
              /\ KeychainReturn(c, KeychainResult("Delete", k, "ErrKeyring", EmptyEntry, << >>))
  /\ UNCHANGED << mu, using, VaultRest, ViewVars >>

\* mutant: the key is appended without looking for it in the index
addToIndex_append(c) ==
  /\ frame[c].pc = "addToIndex"
  /\ mu[using[c]] = "free"
  /\ \E ok \in BOOLEAN :
       LET keys == IF ok THEN readIndex(ring) ELSE << >> IN
       /\ mu' = [mu EXCEPT ![using[c]] = c]
       /\ frame' = [frame EXCEPT ![c].pc = "writeIndex", ![c].keys = Append(keys, frame[c].key)]
       /\ UNCHANGED kres
  /\ UNCHANGED << ring, using, VaultVars, ViewVars >>

\* Store.addToIndex, lines 117-128: lock, readIndex, look for the key
addToIndex(c) ==
  /\ frame[c].pc = "addToIndex"
  /\ mu[using[c]] = "free"
  /\ \E ok \in BOOLEAN :
       LET keys == IF ok THEN readIndex(ring) ELSE << >> IN
       IF frame[c].key \in Range(keys)
         THEN /\ KeychainReturn(c, KeychainResult("Set", frame[c].key, "nil", frame[c].entry, << >>))
              /\ UNCHANGED mu
         ELSE /\ mu' = [mu EXCEPT ![using[c]] = c]
              /\ frame' = [frame EXCEPT ![c].pc = "writeIndex", ![c].keys = Append(keys, frame[c].key)]
              /\ UNCHANGED kres
  /\ UNCHANGED << ring, using, VaultVars, ViewVars >>

\* Store.removeFromIndex, lines 131-143: lock, readIndex, filter
removeFromIndex(c) ==
  /\ frame[c].pc = "removeFromIndex"
  /\ mu[using[c]] = "free"
  /\ \E ok \in BOOLEAN :
       LET keys == IF ok THEN readIndex(ring) ELSE << >> IN
       /\ mu' = [mu EXCEPT ![using[c]] = c]
       /\ frame' = [frame EXCEPT ![c].pc = "writeIndex",
                                 ![c].keys = SelectSeq(keys, LAMBDA x : x # frame[c].key)]
  /\ UNCHANGED << ring, using, kres, VaultVars, ViewVars >>

\* Store.writeIndex, lines 157-168, and the deferred unlock of its caller
writeIndex(c) ==
  /\ frame[c].pc = "writeIndex"
  /\ \E ok \in BOOLEAN :
       /\ ring' = IF ok THEN keyringSet(ring, indexKey, MarshalKeys(frame[c].keys)) ELSE ring
       /\ KeychainReturn(c, KeychainResult(frame[c].op, frame[c].key,
                                           IF ok THEN "nil" ELSE "ErrKeyring",
                                           frame[c].entry, << >>))
  /\ mu' = [mu EXCEPT ![using[c]] = "free"]
  /\ UNCHANGED << using, VaultVars, ViewVars >>

\* Store.List, lines 99-101: readIndex
StoreList(c) ==
  /\ KeychainBegin(c)
  /\ \E ok \in BOOLEAN :
       LET keys == IF ok THEN readIndex(ring) ELSE << >> IN
       IF keys = << >>
         THEN KeychainReturn(c, KeychainResult("List", "", "nil", EmptyEntry, << >>))
         ELSE /\ frame' = [frame EXCEPT ![c] = [NoFrame EXCEPT !.pc = "list", !.op = "List",
                                                               !.keys = keys]]
              /\ kres' = [kres EXCEPT ![c] = NoKeychainResult]
  /\ UNCHANGED << ring, mu, using, VaultRest, ViewVars >>

\* Store.List, lines 103-114: one turn of the loop, and the return after the last
StoreListGet(c) ==
  /\ frame[c].pc = "list"
  /\ \E ok \in BOOLEAN :
       LET got == IF ok THEN KeychainGet(ring, Head(frame[c].keys))
                  ELSE << EmptyEntry, "ErrKeyring" >>
           all == IF got[2] = "nil" THEN Append(frame[c].entries, got[1]) ELSE frame[c].entries
       IN IF got[2] \notin {"nil", "ErrNotFound"}
            THEN KeychainReturn(c, KeychainResult("List", "", got[2], EmptyEntry, << >>))
            ELSE IF Len(frame[c].keys) = 1
              THEN KeychainReturn(c, KeychainResult("List", "", "nil", EmptyEntry, all))
              ELSE /\ frame' = [frame EXCEPT ![c].keys = Tail(frame[c].keys), ![c].entries = all]
                   /\ UNCHANGED kres
  /\ UNCHANGED << ring, mu, using, VaultVars, ViewVars >>

\* ------------------------------------------------------------ specification
\* vault.New over an empty Memory store
New(callers, n) ==
  /\ clock = 1
  /\ ttl \in 0..MaxTTL
  /\ sources \in SourceConfigs
  /\ store = [x \in {} |-> EmptyEntry]
  /\ lastRefresh = ZeroTime
  /\ active = callers
  /\ pc = [p \in Procs |-> "idle"]
  /\ op = [p \in Procs |-> "none"]
  /\ key = [p \in Procs |-> ""]
  /\ e = [p \in Procs |-> EmptyEntry]
  /\ err = [p \in Procs |-> "nil"]
  /\ now = [p \in Procs |-> ZeroTime]
  /\ i = [p \in Procs |-> 0]
  /\ j = [p \in Procs |-> 0]
  /\ res = [p \in Procs |-> NoResult]
  /\ fetched = [p \in Procs |-> << >>]
  /\ wrote = [p \in Procs |-> << >>]
  /\ autoStarts = 0
  /\ lastAutoStart = ZeroTime
  /\ calls = 0
  /\ limit = n

\* NewMemory, and one vault per view built over it
NewViews(caps) ==
  /\ entries = [x \in {} |-> EmptyEntry]
  /\ namespaced \in caps
  /\ name \in { [v \in Views |-> IF v = "u" THEN "" ELSE IF v = "s" THEN n1 ELSE n2] :
                  n1 \in Names, n2 \in Names }
  /\ prefix = [v \in Views |-> NewStore(name[v], namespaced)]
  /\ mres = ViewResult("u", "none", "", "none", EmptyEntry, NoList)
  /\ writer = [x \in {} |-> "u"]

\* no view is used
NoViews ==
  /\ entries = [x \in {} |-> EmptyEntry]
  /\ namespaced = FALSE
  /\ name = [v \in Views |-> ""]
  /\ prefix = [v \in Views |-> ""]
  /\ mres = ViewResult("u", "none", "", "none", EmptyEntry, NoList)
  /\ writer = [x \in {} |-> "u"]

\* no vault call is made
NoCalls ==
  /\ New({}, 0)
  /\ ttl = 0
  /\ sources = << >>

\* keychain.New: store handles hs of one keyring service that holds nothing
NewKeychain(hs) ==
  /\ ring = [x \in {} |-> Marshal(EmptyEntry)]
  /\ mu = [h \in Handles |-> "free"]
  /\ using \in [Procs -> hs]
  /\ frame = [c \in Procs |-> NoFrame]
  /\ kres = [c \in Procs |-> NoKeychainResult]

\* no keychain store is used
NoKeychain == NewKeychain({"h1"})

Init == New(Procs, MaxConcurrentCalls) /\ NoViews /\ NoKeychain

InitSeq == New({"p1"}, MaxCalls) /\ NoViews /\ NoKeychain

InitViews == NoCalls /\ NewViews(BOOLEAN) /\ NoKeychain

\* one caller of one keychain store
InitKeychain ==
  /\ New({"p1"}, MaxKeychainCalls)
  /\ ttl = 0
  /\ sources = << >>
  /\ NoViews
  /\ NewKeychain({"h1"})

NextKeychain ==
  \/ \E c \in active : StoreGet(c)
  \/ \E c \in active : StoreSet(c)
  \/ \E c \in active : StoreDelete(c)
  \/ \E c \in active : addToIndex(c)
  \/ \E c \in active : removeFromIndex(c)
  \/ \E c \in active : writeIndex(c)
  \/ \E c \in active : StoreList(c)
  \/ \E c \in active : StoreListGet(c)

NextViews ==
  \/ \E v \in Views : ViewGet(v)
  \/ \E v \in Views : ViewSet(v)
  \/ \E v \in Views : ViewDelete(v)
  \/ \E v \in Views : ViewList(v)

Next ==
  \/ \E p \in active : GetRead(p)
  \/ \E p \in active : GetCheck(p)
  \/ \E p \in active : GetGate(p)
  \/ \E p \in active : GetReread(p)
  \/ \E p \in active : RefreshCall(p)
  \/ \E p \in active : RefreshNow(p)
  \/ \E p \in active : RefreshFetch(p)
  \/ \E p \in active : RefreshSet(p)
  \/ \E p \in active : RefreshCommit(p)
  \/ \E p \in active : Set(p)
  \/ \E p \in active : Delete(p)
  \/ \E p \in active : List(p)
  \/ Tick

\* concurrent callers
Spec == Init /\ [][Next]_vars

\* one caller: calls do not overlap
SpecSeq == InitSeq /\ [][Next]_vars

\* vaults with and without a namespace over one store
SpecViews == InitViews /\ [][NextViews]_vars

\* the keychain store, calls one after another
SpecKeychain == InitKeychain /\ [][NextKeychain]_vars

\* concurrent callers of a vault with TTL > 0 and at least one source, whose
\* store and sources never fail, and who neither Set nor Delete key "k"
InitReliable ==
  /\ New(Procs, MaxReliableCalls)
  /\ ttl > 0
  /\ Len(sources) > 0
  /\ NoViews
  /\ NoKeychain

NextReliable ==
  \/ \E p \in active : GetRead(p) /\ err'[p] # "ErrStore"
  \/ \E p \in active : GetCheck(p)
  \/ \E p \in active : GetGate(p)
  \/ \E p \in active : GetReread(p) /\ res'[p].out # "ErrStore"
  \/ \E p \in active : RefreshCall(p)
  \/ \E p \in active : RefreshNow(p)
  \/ \E p \in active : RefreshFetch(p) /\ res'[p].ret # "refreshErr"
  \/ \E p \in active : RefreshSet(p) /\ res'[p].ret # "refreshErr"
  \/ \E p \in active : RefreshCommit(p)
  \/ \E p \in active : Set(p) /\ res'[p].key # "k" /\ res'[p].out = "nil"
  \/ \E p \in active : Delete(p) /\ res'[p].key # "k" /\ res'[p].out = "nil"
  \/ Tick

SpecReliable == InitReliable /\ [][NextReliable]_vars

\* concurrent callers of Set and Delete on store handles of one keyring
\* service; the keyring never fails and the reserved index name is not used
\* as a key
InitKeychainConc ==
  /\ New(Procs, MaxKeychainConcCalls)
  /\ ttl = 0
  /\ sources = << >>
  /\ NoViews
  /\ NewKeychain(Handles)

NextKeychainConc ==
  \/ \E c \in active : /\ StoreSet(c)
                       /\ frame'[c].pc = "addToIndex" /\ frame'[c].key # indexKey
  \/ \E c \in active : /\ StoreDelete(c)
                       /\ frame'[c].pc = "removeFromIndex" /\ frame'[c].key # indexKey
  \/ \E c \in active : /\ addToIndex(c)
                       /\ frame'[c].pc = "writeIndex"
                            => frame'[c].keys = Append(readIndex(ring), frame[c].key)
  \/ \E c \in active : /\ removeFromIndex(c)
                       /\ frame'[c].keys
                            = SelectSeq(readIndex(ring), LAMBDA x : x # frame[c].key)
  \/ \E c \in active : writeIndex(c) /\ kres'[c].out = "nil"

SpecKeychainConc == InitKeychainConc /\ [][NextKeychainConc]_vars

\* ================================================================== claims
\* the step taken by caller p
Moves(p) == << pc[p], i[p], j[p], res[p] >> # << pc'[p], i'[p], j'[p], res'[p] >>

\* every entry of every source in consultation order, stamped with time t
RECURSIVE Stamped(_, _)
Stamped(srcs, t) ==
  IF Len(srcs) = 0 THEN << >>
  ELSE [n \in 1..Len(Head(srcs)) |-> [Head(srcs)[n] EXCEPT !.createdAt = t]]
       \o Stamped(Tail(srcs), t)

\* C1: a Get that finds its key with a Fresh entry (TTL = 0, or age <= TTL)
\* returns exactly the entry the store held, fetches from no provider,
\* writes nothing and leaves lastRefresh alone.
C1_FreshHitReturnsStored ==
  [][\A p \in Procs :
       /\ (pc[p] = "idle" /\ pc'[p] = "get_check" /\ err'[p] = "nil")
            => (key'[p] \in DOMAIN store /\ e'[p] = store[key'[p]])
       /\ (pc[p] = "get_check" /\ Moves(p) /\ err[p] = "nil"
             /\ (ttl = 0 \/ clock - e[p].createdAt <= ttl))
            => /\ pc'[p] = "idle"
               /\ res'[p].op = "Get" /\ res'[p].out = "nil" /\ res'[p].entry = e[p]
               /\ store' = store /\ lastRefresh' = lastRefresh
               /\ fetched'[p] = << >> /\ wrote'[p] = << >>]_vars

\* a fresh entry of exactly age TTL was returned while providers are registered
C1_Witness ==
  \E p \in Procs :
    /\ res[p].op = "Get" /\ res[p].ret = "hit" /\ res[p].entry.key = res[p].key
    /\ Len(sources) > 0 /\ ttl > 0 /\ fetched[p] = << >>
    /\ clock - res[p].entry.createdAt = ttl

\* C2: for TTL > 0 every entry a Get returns without error has age <= TTL
\* when it is returned.  The time a Refresh takes is not held against the
\* entry: after a Refresh the age is taken at that Refresh's start time.
C2_NeverReturnsStale ==
  [][\A p \in Procs :
       /\ (pc[p] = "get_check" /\ pc'[p] = "idle" /\ res'[p].out = "nil" /\ ttl > 0)
            => clock - res'[p].entry.createdAt <= ttl
       /\ (pc[p] = "get_reread" /\ pc'[p] = "idle" /\ res'[p].out = "nil" /\ ttl > 0)
            => now[p] - res'[p].entry.createdAt <= ttl]_vars

\* C3: when the key is Absent or Stale and the gate denies (no providers, or a
\* refresh completed and TTL = 0, or TTL > 0 and time since lastRefresh <= TTL)
\* Get returns NotFound, fetches nothing and leaves the store alone.
C3_DeniedGateNotFound ==
  [][\A p \in Procs :
       (pc[p] = "get_gate" /\ Moves(p)
          /\ \/ Len(sources) = 0
             \/ (lastRefresh # ZeroTime /\ ttl = 0)
             \/ (lastRefresh # ZeroTime /\ ttl > 0 /\ clock - lastRefresh <= ttl))
       => /\ pc'[p] = "idle"
          /\ res'[p].op = "Get" /\ res'[p].out = "ErrNotFound" /\ res'[p].entry = EmptyEntry
          /\ fetched'[p] = << >> /\ wrote'[p] = << >>
          /\ store' = store /\ lastRefresh' = lastRefresh]_vars

\* NotFound was returned by a denied gate while a Stale entry for the key is
\* in the store, with providers registered
C3_Witness ==
  \E p \in Procs :
    /\ res[p].op = "Get" /\ res[p].ret = "denied" /\ res[p].out = "ErrNotFound"
    /\ Len(sources) > 0
    /\ res[p].key \in DOMAIN store
    /\ ttl > 0 /\ clock - store[res[p].key].createdAt > ttl

\* C4: when the Refresh a Get triggered fails, Get returns that Refresh's
\* error and no entry, whatever the store holds for the key.
C4_RefreshErrorSurfaced ==
  [][\A p \in Procs :
       (op[p] = "Get" /\ pc[p] \in {"fetch", "set"} /\ pc'[p] = "idle")
       => /\ res'[p].out \in {"ErrFetch", "ErrSet"}
          /\ res'[p].out = res'[p].rerr
          /\ res'[p].entry = EmptyEntry]_vars

\* a Get failed with the Refresh error although an earlier provider of the
\* same Refresh had just written its key
C4_Witness ==
  \E p \in Procs :
    /\ res[p].op = "Get" /\ res[p].ret = "refreshErr" /\ res[p].out = "ErrFetch"
    /\ wrote[p] # << >>
    /\ res[p].key \in DOMAIN store /\ store[res[p].key] = wrote[p][Len(wrote[p])]

\* C5: lastRefresh changes only in the last step of a Refresh whose every
\* fetch and every write succeeded, and then to that Refresh's start time.
C5_LastRefreshOnlyOnSuccess ==
  [][lastRefresh' # lastRefresh
       => \E p \in Procs :
            /\ pc[p] = "commit" /\ pc'[p] \in {"idle", "get_reread"}
            /\ lastRefresh' = now[p]
            /\ fetched[p] = [n \in 1..Len(sources) |-> n]
            /\ wrote[p] = Stamped(sources, now[p])
            /\ (pc'[p] = "idle" => res'[p].out = "nil")]_vars

\* a Refresh failed after an earlier one had succeeded, and lastRefresh still
\* holds the start time of the successful one
C5_Witness ==
  \E p \in Procs :
    /\ res[p].ret = "refreshErr" /\ wrote[p] # << >>
    /\ lastRefresh # ZeroTime /\ lastRefresh < wrote[p][1].createdAt

\* what a Refresh that began at time t and is at source n, entry m has written
WrittenBefore(n, m, t) ==
  Stamped(SubSeq(sources, 1, n - 1), t)
    \o [x \in 1..(m - 1) |-> [sources[n][x] EXCEPT !.createdAt = t]]

\* C6: a failing fetch or write aborts Refresh at once with the error: nothing
\* more is fetched or written, what was written before stays, and no step of
\* Refresh touches any key but the one it writes.
C6_RefreshAbortsAtFailure ==
  [][\A p \in Procs :
       /\ (pc[p] = "fetch" /\ Moves(p))
            => /\ store' = store /\ wrote'[p] = wrote[p]
               /\ \/ /\ fetched'[p] = Append(fetched[p], i[p])
                     /\ pc'[p] = "set" /\ i'[p] = i[p] /\ j'[p] = 1
                  \/ /\ pc'[p] = "idle" /\ res'[p].out = "ErrFetch"
                     /\ fetched'[p] = fetched[p]
                     /\ fetched[p] = [n \in 1..(i[p] - 1) |-> n]
                     /\ wrote[p] = WrittenBefore(i[p], 1, now[p])
       /\ (pc[p] = "set" /\ Moves(p))
            => LET en == [sources[i[p]][j[p]] EXCEPT !.createdAt = now[p]] IN
               /\ fetched'[p] = fetched[p]
               /\ \/ /\ wrote'[p] = Append(wrote[p], en)
                     /\ DOMAIN store' = DOMAIN store \cup {en.key}
                     /\ store'[en.key] = en
                     /\ \A x \in DOMAIN store \ {en.key} : store'[x] = store[x]
                     /\ pc'[p] \in {"set", "fetch", "commit"}
                  \/ /\ pc'[p] = "idle" /\ res'[p].out = "ErrSet"
                     /\ store' = store /\ wrote'[p] = wrote[p]
                     /\ fetched[p] = [n \in 1..i[p] |-> n]
                     /\ wrote[p] = WrittenBefore(i[p], j[p], now[p])]_vars

\* the second provider's fetch failed: the first provider's entry is in the
\* store, an entry for another key is untouched, lastRefresh is unset
C6_Witness ==
  \E p \in Procs :
    /\ res[p].ret = "refreshErr" /\ res[p].out = "ErrFetch"
    /\ fetched[p] = << 1 >> /\ Len(wrote[p]) = 1
    /\ "k" \in DOMAIN store /\ store["k"] = wrote[p][1]
    /\ "x" \in DOMAIN store /\ store["x"].value = "m"
    /\ lastRefresh = ZeroTime

C8_RetriggerAfterTTL ==
  [][\A p \in Procs :
       (ttl > 0 /\ Len(sources) > 0 /\ lastRefresh # ZeroTime
          /\ pc[p] = "get_gate" /\ Moves(p))
       => /\ (clock - lastRefresh < ttl)
               => (pc'[p] = "idle" /\ res'[p].out = "ErrNotFound" /\ autoStarts' = autoStarts)
          /\ (clock - lastRefresh > ttl)
               => (pc'[p] = "refresh" /\ lastAutoStart' = clock)]_vars

\* a Get more than TTL after the last successful Refresh has triggered another
C8_Witness ==
  \E p \in Procs :
    /\ ttl > 0 /\ lastRefresh # ZeroTime /\ clock - lastRefresh > ttl
    /\ op[p] = "Get" /\ pc[p] = "refresh" /\ lastAutoStart = clock

\* C9: at most one automatic Refresh starts within any window of length TTL,
\* and with TTL = 0 none starts once a Refresh has succeeded.
C9_OneAutoRefreshPerTTL ==
  [][\A p \in Procs :
       (pc[p] = "get_gate" /\ pc'[p] = "refresh")
       => /\ (ttl > 0 /\ lastAutoStart # ZeroTime) => (clock - lastAutoStart >= ttl)
          /\ (ttl = 0) => (lastRefresh = ZeroTime)]_vars

\* the entry that a successful Refresh leaves for key k: the last one in
\* consultation order that carries k
Supplied(k) == { n \in 1..Len(Stamped(sources, ZeroTime)) : Stamped(sources, ZeroTime)[n].key = k }

LastSupplied(k) ==
  Stamped(sources, ZeroTime)[CHOOSE n \in Supplied(k) : \A m \in Supplied(k) : m <= n]

\* C10: after a successful Refresh the store holds, for every key a provider
\* supplies, the entry of the last provider (and the last entry of it) that
\* supplies the key.
C10_LastProviderWins ==
  \A p \in Procs :
    (pc[p] = "get_reread" \/ res[p].rerr = "nil")
    => \A k \in Keys :
         Supplied(k) # {}
         => /\ k \in DOMAIN store
            /\ store[k] = [LastSupplied(k) EXCEPT !.createdAt = lastRefresh]

\* with providers [SrcA, SrcB] a Refresh succeeded and k holds SrcB's last value
C10_Witness ==
  \E p \in Procs :
    /\ Len(sources) = 2 /\ res[p].ret = "refreshOk"
    /\ Len(wrote[p]) = 3 /\ wrote[p][1].value = "a"
    /\ store["k"].value = "b2"

\* C11: with TTL > 0 Get treats a stored entry of age d as Fresh iff d <= TTL
\* and as Stale iff d > TTL; with TTL = 0 every stored entry is Fresh.
C11_FreshnessClassification ==
  [][\A p \in Procs :
       (pc[p] = "get_check" /\ Moves(p) /\ err[p] = "nil")
       => /\ (ttl > 0 /\ clock - e[p].createdAt <= ttl) => res'[p].ret = "hit"
          /\ (ttl > 0 /\ clock - e[p].createdAt > ttl) => pc'[p] = "get_gate"
          /\ (ttl = 0) => res'[p].ret = "hit"
          /\ (res'[p].ret = "hit") <=> ~(pc'[p] = "get_gate")]_vars

\* an entry one tick older than the TTL was classified Stale
C11_Witness ==
  \E p \in Procs :
    /\ pc[p] = "get_gate" /\ err[p] = "nil"
    /\ ttl > 0 /\ clock - e[p].createdAt = ttl + 1

\* what Set is to store for the entry en handed to it at the current time
Normalised(en) ==
  [key |-> en.key, value |-> en.value,
   createdAt |-> IF en.createdAt = ZeroTime THEN clock ELSE en.createdAt,
   source |-> IF en.source = "" THEN "manual" ELSE en.source]

\* C12: Set stores the entry with createdAt replaced by the current time iff it
\* was zero and source replaced by "manual" iff it was empty, everything else
\* as given; it leaves lastRefresh alone and fetches from no provider.
C12_SetNormalises ==
  [][\A p \in Procs :
       (pc[p] = "idle" /\ calls' = calls + 1 /\ op'[p] = "Set" /\ res'[p].op = "Set")
       => /\ \E en \in SetInputs :
               /\ en.key = key'[p] /\ res'[p].entry = Normalised(en)
               /\ (en.createdAt # ZeroTime) => res'[p].entry.createdAt = en.createdAt
               /\ (en.source # "") => res'[p].entry.source = en.source
          /\ (res'[p].out = "nil")
               => /\ DOMAIN store' = DOMAIN store \cup {key'[p]}
                  /\ store'[key'[p]] = res'[p].entry
                  /\ \A x \in DOMAIN store \ {key'[p]} : store'[x] = store[x]
          /\ (res'[p].out # "nil") => store' = store
          /\ lastRefresh' = lastRefresh
          /\ fetched'[p] = << >> /\ wrote'[p] = << >>]_vars

\* an entry with an explicit timestamp and source was stored as given, at a
\* later time than its timestamp
C12_Witness ==
  \E p \in Procs :
    /\ res[p].op = "Set" /\ res[p].out = "nil"
    /\ res[p].entry.source = "custom" /\ res[p].entry.createdAt = 1 /\ clock > 1
    /\ res[p].key \in DOMAIN store /\ store[res[p].key] = res[p].entry

\* C19: expiry never deletes.  No step of a Get removes an entry, List returns
\* every entry the store holds whatever its age, an entry leaves the store
\* only in a Delete of its key and changes only in a Set or a Refresh write of
\* its key.
C19_ExpiryNeverDeletes ==
  [][/\ \A k \in DOMAIN store :
          (k \notin DOMAIN store')
          => \E p \in Procs : pc[p] = "idle" /\ res'[p].ret = "delete" /\ res'[p].key = k
     /\ \A k \in DOMAIN store \cap DOMAIN store' :
          (store'[k] # store[k])
          => \E p \in Procs :
               \/ pc[p] = "idle" /\ res'[p].ret = "set" /\ res'[p].key = k
               \/ pc[p] = "set" /\ sources[i[p]][j[p]].key = k
     /\ \A p \in Procs :
          /\ (op'[p] = "Get" /\ Moves(p)) => DOMAIN store \subseteq DOMAIN store'
          /\ (pc[p] = "idle" /\ res'[p].ret = "list" /\ res'[p].out = "nil")
               => res'[p].list = { store[k] : k \in DOMAIN store }]_vars

\* List returned a Stale entry that is still in the store, after a Get had
\* triggered an automatic Refresh
C19_Witness ==
  \E p \in Procs :
    /\ res[p].ret = "list" /\ res[p].out = "nil" /\ ttl > 0
    /\ \E en \in res[p].list : clock - en.createdAt > ttl /\ en.key \in DOMAIN store
    /\ lastAutoStart # ZeroTime

\* what a read of key k through a handle with prefix pre yields when the
\* shared map is m
ReadIn(m, pre, k) == IF pre \o k \in DOMAIN m THEN << m[pre \o k], "nil" >>
                     ELSE << EmptyEntry, "ErrNotFound" >>

\* C13: over a store that implements Namespaced, after key k is written under
\* namespace A, reading k under A returns the entry written, and what reading
\* k yields under any other namespace name, or unscoped, is what it was.
C13_NamespaceIsolation ==
  [][\A v \in Views :
       (namespaced /\ name[v] # "" /\ mres'.view = v /\ mres'.op = "Set")
       => /\ ReadIn(entries', prefix[v], mres'.key) = << mres'.entry, "nil" >>
          /\ \A w \in Views :
               (name[w] # name[v])
               => ReadIn(entries', prefix[w], mres'.key) = ReadIn(entries, prefix[w], mres'.key)]_vars

\* reading k under one namespace gave NotFound while another namespace and
\* the unscoped store both hold k
C13_Witness ==
  /\ namespaced /\ mres.op = "Get" /\ mres.out = "ErrNotFound" /\ name[mres.view] # ""
  /\ \E v \in Views : /\ name[v] # "" /\ name[v] # name[mres.view]
                      /\ ScopedGet(prefix[v], mres.key)[2] = "nil"
  /\ ScopedGet("", mres.key)[2] = "nil"

\* C14: two views scoped to distinct namespace names are isolated for
\* arbitrary keys: no Set or Delete through one changes what Get returns for
\* any key through the other.
C14_ViewsIsolated ==
  [][\A v \in Views, w \in Views :
       (namespaced /\ name[v] # "" /\ name[w] # "" /\ name[v] # name[w]
          /\ mres'.view = v /\ mres'.op \in {"Set", "Delete"})
       => \A k \in ViewKeys : ReadIn(entries', prefix[w], k) = ReadIn(entries, prefix[w], k)]_vars

\* C15: List through a view scoped to N returns exactly the entries stored
\* through views scoped to N, one per key.
C15_ListOnlyOwnNamespace ==
  [][(namespaced /\ name[mres'.view] # "" /\ mres'.op = "List")
       => /\ DOMAIN mres'.list = { x \in DOMAIN entries : name[writer[x]] = name[mres'.view] }
          /\ \A x \in DOMAIN mres'.list : mres'.list[x] = entries[x]
          /\ \A x \in DOMAIN mres'.list, y \in DOMAIN mres'.list :
               (x # y) => mres'.list[x].key # mres'.list[y].key]_vars

\* C16: a vault built with a namespace over a store that does not implement
\* Namespaced reads and writes exactly what a vault with no namespace does.
C16_NamespaceNoOpWithoutCapability ==
  [][(~namespaced)
       => /\ (mres'.op = "Get")
               => << mres'.entry, mres'.out >> = ScopedGet("", mres'.key) /\ entries' = entries
          /\ (mres'.op = "Set") => entries' = ScopedSet("", mres'.entry) /\ mres'.out = "nil"
          /\ (mres'.op = "Delete") => entries' = ScopedDelete("", mres'.key) /\ mres'.out = "nil"
          /\ (mres'.op = "List") => mres'.list = ScopedList("") /\ entries' = entries]_vars

\* a vault built with a namespace read the entry a vault without one wrote
C16_Witness ==
  /\ ~namespaced /\ name[mres.view] # ""
  /\ mres.op = "Get" /\ mres.out = "nil"
  /\ mres.key \in DOMAIN writer /\ writer[mres.key] = "u"

\* what Store.List returns on the items r when nothing fails and nothing
\* interleaves: the entries of the indexed keys, or the first decoding error
RECURSIVE KeychainList(_, _, _)
KeychainList(r, keys, acc) ==
  IF keys = << >> THEN << acc, "nil" >>
  ELSE IF KeychainGet(r, Head(keys))[2] = "ErrNotFound" THEN KeychainList(r, Tail(keys), acc)
  ELSE IF KeychainGet(r, Head(keys))[2] # "nil" THEN << << >>, KeychainGet(r, Head(keys))[2] >>
  ELSE KeychainList(r, Tail(keys), Append(acc, KeychainGet(r, Head(keys))[1]))

\* C17: Delete is idempotent.  After a Delete(k) that returns no error, Get(k)
\* is NotFound, List has no entry for k, every other key has the entry it had
\* or none as before, and a Delete of a key that was not there leaves what
\* List returns as it was.
C17_DeleteIdempotent ==
  [][\A c \in Procs :
       (frame[c].op = "Delete" /\ kres'[c].op = "Delete" /\ kres'[c].out = "nil")
       => /\ KeychainGet(ring', frame[c].key)[2] = "ErrNotFound"
          /\ frame[c].key \notin Range(readIndex(ring'))
          /\ \A x \in KeychainKeys \ {frame[c].key} :
               /\ (KeychainGet(ring', x)[2] = "nil") <=> (KeychainGet(ring, x)[2] = "nil")
               /\ KeychainGet(ring', x)[1] = KeychainGet(ring, x)[1]
          /\ (frame[c].keys = readIndex(ring))
               => KeychainList(ring', readIndex(ring'), << >>)
                    = KeychainList(ring, readIndex(ring), << >>)]_vars

C20_KeychainRoundTrip ==
  [][\A c \in Procs :
       (frame[c].op = "Set" /\ kres'[c].op = "Set" /\ kres'[c].out = "nil")
       => /\ KeychainGet(ring', frame[c].key) = << frame[c].entry, "nil" >>
          /\ KeychainList(ring', readIndex(ring'), << >>)[2] = "nil"
          /\ frame[c].entry \in Range(KeychainList(ring', readIndex(ring'), << >>)[1])]_vars

C22_StampedWithStartTime ==
  [][\A p \in Procs :
       /\ (pc[p] = "set" /\ Moves(p) /\ pc'[p] # "idle")
            => /\ store'[sources[i[p]][j[p]].key]
                    = [key |-> sources[i[p]][j[p]].key, value |-> sources[i[p]][j[p]].value,
                       createdAt |-> now[p], source |-> sources[i[p]][j[p]].source]
               /\ now'[p] = now[p]
       /\ (pc[p] \in {"fetch", "set"} /\ pc'[p] # "idle") => now'[p] = now[p]
       /\ (pc[p] = "commit" /\ Moves(p)) => lastRefresh' = now[p]]_vars

\* a Refresh that succeeded some time ago has overwritten the timestamp the
\* provider supplied with its start time, which is also lastRefresh
C22_Witness ==
  \E p \in Procs :
    /\ res[p].ret = "refreshOk" /\ Len(sources) = 2 /\ Len(wrote[p]) = 3
    /\ wrote[p][3].value = "b2" /\ SrcB[2].createdAt # lastRefresh
    /\ store["k"] = wrote[p][3] /\ store["k"].createdAt = lastRefresh
    /\ clock > lastRefresh

\* C23: an explicit Refresh does not ask the throttle gate: it fetches every
\* registered provider once, in registration order, and fetches provider i+1
\* only after every entry of providers 1..i has been written.
C23_RefreshBypassesGate ==
  [][\A p \in Procs :
       (op'[p] = "Refresh")
       => /\ (pc[p] = "idle" /\ calls' = calls + 1)
               => /\ pc'[p] = (IF Len(sources) = 0 THEN "commit" ELSE "fetch")
                  /\ fetched'[p] = << >> /\ i'[p] = 1
          /\ (pc[p] = "fetch" /\ Moves(p) /\ pc'[p] # "idle")
               => /\ fetched'[p] = [n \in 1..i[p] |-> n]
                  /\ wrote[p] = WrittenBefore(i[p], 1, now[p])
          /\ (pc[p] = "commit" /\ Moves(p))
               => /\ fetched[p] = [n \in 1..Len(sources) |-> n]
                  /\ wrote[p] = Stamped(sources, now[p])
                  /\ res'[p].out = "nil"]_vars

\* with TTL = 0 and a Refresh completed earlier, so that the gate denies, an
\* explicit Refresh has fetched both providers
C23_Witness ==
  \E p \in Procs :
    /\ op[p] = "Refresh" /\ pc[p] = "commit"
    /\ ttl = 0 /\ lastRefresh # ZeroTime /\ ~shouldAutoRefresh
    /\ fetched[p] = << 1, 2 >>

\* C24: when the first store read of Get fails with an error other than
\* NotFound, Get returns that error, fetches no provider, runs no Refresh and
\* leaves the store and lastRefresh alone, with or without providers.
C24_StoreErrorPropagated ==
  [][\A p \in Procs :
       (pc[p] = "get_check" /\ Moves(p) /\ err[p] \notin {"nil", "ErrNotFound"})
       => /\ pc'[p] = "idle"
          /\ res'[p].op = "Get" /\ res'[p].out = err[p] /\ res'[p].entry = EmptyEntry
          /\ fetched'[p] = << >> /\ wrote'[p] = << >>
          /\ autoStarts' = autoStarts /\ lastAutoStart' = lastAutoStart
          /\ store' = store /\ lastRefresh' = lastRefresh]_vars

\* Get returned the store's error although providers are registered and the
\* gate would have permitted
C24_Witness ==
  \E p \in Procs :
    /\ res[p].op = "Get" /\ res[p].ret = "storeErr" /\ res[p].out = "ErrStore"
    /\ Len(sources) > 0 /\ shouldAutoRefresh

\* C25: lastRefresh never decreases: every step, under any interleaving of
\* concurrent Get and Refresh calls, leaves lastRefresh at least as large as
\* it was.
C25_LastRefreshMonotone ==
  [][lastRefresh' >= lastRefresh]_vars

\* C26: with TTL > 0, sources that always succeed and always supply key "k",
\* and no Set or Delete of "k", no Get("k") returns NotFound.
C26_ProvidedKeyAvailable ==
  [][\A p \in Procs :
       (op[p] = "Get" /\ key[p] = "k" /\ pc[p] # "idle" /\ pc'[p] = "idle")
       => res'[p].out # "ErrNotFound"]_vars

\* C27: keychain index consistency under concurrency.  Once every Set and
\* Delete call of the concurrent callers has returned, List returns an entry
\* for key k iff Get(k) succeeds.
C27_IndexConsistent ==
  (\A c \in Procs : frame[c].pc = "idle")
  => \A k \in KeychainKeys \ {indexKey} :
       (\E en \in Range(KeychainList(ring, readIndex(ring), << >>)[1]) : en.key = k)
         <=> (KeychainGet(ring, k)[2] = "nil")

====
